---- MODULE Spec2Model ----
(***************************************************************************)
(* A model of the glob library: the tokenizer of glob_parser.rs, the       *)
(* MultiSlice of multislice.rs and the matching engine of lib.rs.          *)
(*                                                                         *)
(* A Rust `str` is modelled as the sequence of its bytes.  Every byte is   *)
(* written as a one-character string; "H" followed by "T" is the encoding  *)
(* of one two-byte character (a lead byte and its continuation byte), all  *)
(* other bytes are one-byte characters.  Slicing a str at an offset that   *)
(* is not a character boundary, or beyond its end, panics in Rust; the     *)
(* model makes every such slice an explicit panic outcome.                 *)
(***************************************************************************)
EXTENDS Integers, Sequences, FiniteSets, TLC

\* bounds of the model: the byte length of the pattern and of the candidate
MaxPatLen == 4
MaxStrLen == 3

PatternBytes == {"a", "*", "?", "\\", "H", "T"}
StringBytes == {"a", "*", "H", "T"}

\* valid UTF-8: a lead byte is followed by its continuation byte, and a
\* continuation byte only ever follows a lead byte
WellFormed(s) ==
    \A k \in 1..Len(s) :
        /\ s[k] = "H" => (k < Len(s) /\ s[k + 1] = "T")
        /\ s[k] = "T" => (k > 1 /\ s[k - 1] = "H")

StrsUpTo(bytes, n) ==
    {s \in UNION {[1..k -> bytes] : k \in 0..n} : WellFormed(s)}

Patterns == StrsUpTo(PatternBytes, MaxPatLen)
Strings == StrsUpTo(StringBytes, MaxStrLen)

-----------------------------------------------------------------------------
(* str primitives *)

\* str::is_char_boundary
is_char_boundary(s, idx) ==
    \/ idx = 0
    \/ idx = Len(s)
    \/ (idx > 0 /\ idx < Len(s) /\ s[idx + 1] # "T")

\* whether &s[a..b] is a slice Rust accepts; it panics otherwise
CanSlice(s, a, b) ==
    a <= b /\ b <= Len(s) /\ is_char_boundary(s, a) /\ is_char_boundary(s, b)

\* &s[a..b], byte offsets, for CanSlice(s, a, b)
Slice(s, a, b) == SubSeq(s, a + 1, b)

\* str.chars(): one element per character, here the character's first byte
chars(s) == SelectSeq(s, LAMBDA b : b # "T")

\* str.find(needle): the byte offset of the first occurrence, -1 for None
find(haystack, needle) ==
    LET hits == {j \in 0..(Len(haystack) - Len(needle)) :
                    SubSeq(haystack, j + 1, j + Len(needle)) = needle}
    IN IF hits = {} THEN -1 ELSE CHOOSE j \in hits : \A k \in hits : j <= k

-----------------------------------------------------------------------------
(* Option, Result and panics *)

None == [kind |-> "None"]
Some(v) == [kind |-> "Some", value |-> v]
Ok(v) == [kind |-> "Ok", value |-> v]
Err(e) == [kind |-> "Err", err |-> e]
Panic == [kind |-> "Panic"]

-----------------------------------------------------------------------------
(* multislice.rs *)

\* MultiSlice::new
MultiSlice_new == [slices |-> <<>>, total_length |-> 0]

\* a push that counts the segment, not its bytes
MultiSlice_push_counts_slices(self, slice) ==
    [slices |-> Append(self.slices, slice),
     total_length |-> self.total_length + 1]

\* MultiSlice::push
MultiSlice_push(self, slice) ==
    [slices |-> Append(self.slices, slice),
     total_length |-> self.total_length + Len(slice)]

\* impl From<&str> for MultiSlice
MultiSlice_from(slice) == MultiSlice_push(MultiSlice_new, slice)

\* slices.iter().map(|slice| slice.len()).sum()
RECURSIVE sum_of_lengths(_)
sum_of_lengths(slices) ==
    IF slices = <<>> THEN 0 ELSE Len(Head(slices)) + sum_of_lengths(Tail(slices))

\* impl From<&[&str]> for MultiSlice
MultiSlice_from_slices(slices) ==
    [slices |-> slices, total_length |-> sum_of_lengths(slices)]

get_combined_length(self) == self.total_length

\* MultiSlice::get_next_non_empty_slice; slice numbers count from 0
get_next_non_empty_slice(self, index) ==
    LET hits == {k \in (index + 1)..Len(self.slices) : Len(self.slices[k]) > 0}
    IN IF index > Len(self.slices) THEN Panic
       ELSE IF hits = {} THEN None
       ELSE LET k == CHOOSE x \in hits : \A y \in hits : x <= y
            IN Some([no |-> k - 1, slice |-> self.slices[k]])

\* the loop of MultiSlice::matches_string_start, at slice number k (from 1)
\* with i bytes of the string consumed: "true", "false" or "panic"
RECURSIVE matches_string_start_loop(_, _, _, _)
matches_string_start_loop(self, k, i, string) ==
    IF k > Len(self.slices) THEN "true"
    ELSE LET slice_len == Len(self.slices[k])
         IN IF slice_len > Len(string) - i THEN "false"
            ELSE IF ~CanSlice(string, i, i + slice_len) THEN "panic"
            ELSE IF self.slices[k] # Slice(string, i, i + slice_len) THEN "false"
            ELSE matches_string_start_loop(self, k + 1, i + slice_len, string)

matches_string_start(self, string) ==
    matches_string_start_loop(self, 1, 0, string)

\* the loop of PartialEq<str>::eq at slice number k (from 1): "true", "false"
\* or "panic"
RECURSIVE eq_str_loop(_, _, _, _)
eq_str_loop(self, other, k, position) ==
    IF k > Len(self.slices) THEN "true"
    ELSE IF ~CanSlice(other, position, position + Len(other)) THEN "panic"
    ELSE IF self.slices[k] = Slice(other, position, position + Len(other))
    THEN eq_str_loop(self, other, k + 1, position + Len(other))
    ELSE "false"

\* impl PartialEq<str> for MultiSlice
MultiSlice_eq_str(self, other) == eq_str_loop(self, other, 1, 0)

\* the loop of PartialEq<MultiSlice>::eq: "true", "false" or "panic"
RECURSIVE eq_loop(_, _, _, _, _, _)
eq_loop(self, other, left_slice_no, right_slice_no, left_slice_index, right_slice_index) ==
    LET left_slice == get_next_non_empty_slice(self, left_slice_no)
        right_slice == get_next_non_empty_slice(other, right_slice_no)
    IN IF left_slice = Panic \/ right_slice = Panic THEN "panic"
       ELSE IF left_slice = None /\ right_slice # None THEN "false"
       ELSE IF right_slice = None /\ left_slice # None THEN "false"
       ELSE IF left_slice = None /\ right_slice = None THEN "true"
       ELSE
         LET left_no == left_slice.value.no
             right_no == right_slice.value.no
             left == left_slice.value.slice
             right == right_slice.value.slice
             chars_remaining_left == Len(left) - left_slice_index
             chars_remaining_right == Len(right) - right_slice_index
             chars_to_be_compared ==
                 IF chars_remaining_left <= chars_remaining_right
                 THEN chars_remaining_left ELSE chars_remaining_right
         IN IF \/ ~CanSlice(left, left_slice_index,
                            left_slice_index + chars_to_be_compared)
               \/ ~CanSlice(right, right_slice_index,
                            right_slice_index + chars_to_be_compared)
            THEN "panic"
            ELSE IF Slice(left, left_slice_index,
                          left_slice_index + chars_to_be_compared)
                    # Slice(right, right_slice_index,
                            right_slice_index + chars_to_be_compared)
            THEN "false"
            ELSE eq_loop(self, other,
                    IF chars_to_be_compared = chars_remaining_left
                    THEN left_no + 1 ELSE left_no,
                    IF chars_to_be_compared = chars_remaining_right
                    THEN right_no + 1 ELSE right_no,
                    IF chars_to_be_compared = chars_remaining_left
                    THEN 0 ELSE left_slice_index + chars_to_be_compared,
                    IF chars_to_be_compared = chars_remaining_right
                    THEN 0 ELSE right_slice_index + chars_to_be_compared)

\* impl PartialEq<MultiSlice> for MultiSlice
MultiSlice_eq(self, other) == eq_loop(self, other, 0, 0, 0, 0)

\* AllMultiSliceOccurencesIterator::new
AllMultiSliceOccurencesIterator_new(slices, string) ==
    LET first == get_next_non_empty_slice(slices, 0)
    IN [slices |-> slices,
        string |-> string,
        first_non_empty_slice |->
            IF first.kind = "Some" THEN Some(first.value.slice) ELSE None,
        next_search_position |-> 0]

find_all_occurences_in(self, string) ==
    AllMultiSliceOccurencesIterator_new(self, string)

\* the while loop of next() for a literal with a non-empty slice
RECURSIVE next_while(_)
next_while(it) ==
    IF ~(it.next_search_position < Len(it.string))
    THEN [item |-> None, it |-> it]
    ELSE
      LET current_search_position == it.next_search_position
          len == Len(it.string)
      IN IF ~CanSlice(it.string, current_search_position, len)
         THEN [item |-> Panic, it |-> it]
         ELSE
           LET next_occurence ==
                   find(Slice(it.string, current_search_position, len),
                        it.first_non_empty_slice.value)
           IN IF next_occurence = -1
              THEN [item |-> None,
                    it |-> [it EXCEPT !.next_search_position = len]]
              ELSE
                LET absolute_position == current_search_position + next_occurence
                    it2 == [it EXCEPT !.next_search_position = absolute_position + 1]
                IN IF ~CanSlice(it.string, absolute_position, len)
                   THEN [item |-> Panic, it |-> it2]
                   ELSE
                     LET m == matches_string_start(
                                  it.slices, Slice(it.string, absolute_position, len))
                     IN IF m = "panic" THEN [item |-> Panic, it |-> it2]
                        ELSE IF m = "true"
                        THEN [item |-> Some(absolute_position), it |-> it2]
                        ELSE next_while(it2)

\* an iterator of a zero-length buffer that starts over once it is exhausted
Iterator_next_restarting(it) ==
    IF it.first_non_empty_slice.kind = "None"
    THEN LET current_search_position == it.next_search_position
         IN IF current_search_position <= Len(it.string)
            THEN [item |-> Some(current_search_position),
                  it |-> [it EXCEPT !.next_search_position = @ + 1]]
            ELSE [item |-> None,
                  it |-> [it EXCEPT !.next_search_position = 0]]
    ELSE next_while(it)

\* AllMultiSliceOccurencesIterator::next: the item and the iterator after it
Iterator_next(it) ==
    IF it.first_non_empty_slice.kind = "None"
    THEN LET current_search_position == it.next_search_position
         IN IF current_search_position <= Len(it.string)
            THEN [item |-> Some(current_search_position),
                  it |-> [it EXCEPT !.next_search_position = @ + 1]]
            ELSE [item |-> None, it |-> it]
    ELSE next_while(it)

-----------------------------------------------------------------------------
(* glob_parser.rs *)

ExactLengthWildcard(n) == [kind |-> "ExactLengthWildcard", length |-> n]
MinLengthWildcard(n) == [kind |-> "MinLengthWildcard", length |-> n]
Literal(ms) == [kind |-> "Literal", literal |-> ms]

IsWildcard(token) == token.kind \in {"ExactLengthWildcard", "MinLengthWildcard"}

UnknownEscapeSequence(index, text) ==
    [kind |-> "UnknownEscapeSequence", index |-> index, text |-> text]
UnterminatedEscapeSequence(index) ==
    [kind |-> "UnterminatedEscapeSequence", index |-> index]

wildcard_for_character(c) ==
    IF c = "*" THEN MinLengthWildcard(0) ELSE ExactLengthWildcard(1)

ExpectNew == [kind |-> "ExpectNew"]
BorrowedLiteral(start, end) ==
    [kind |-> "BorrowedLiteral", start |-> start, end |-> end]
ExpectEscapedCharacter == [kind |-> "ExpectEscapedCharacter"]

\* a merge that keeps the kind of the first token: `?*` would stay exact
merge_wildcard_tokens_first_kind(token1, token2) ==
    [kind |-> token1.kind, length |-> token1.length + token2.length]

merge_wildcard_tokens(token1, token2) ==
    IF token1.kind = "ExactLengthWildcard" /\ token2.kind = "ExactLengthWildcard"
    THEN ExactLengthWildcard(token1.length + token2.length)
    ELSE MinLengthWildcard(token1.length + token2.length)

\* appending a wildcard without merging it with a wildcard before it
append_wildcard_to_token_sequence_push(token_sequence, token) ==
    Append(token_sequence, token)

append_wildcard_to_token_sequence(token_sequence, token) ==
    IF token_sequence = <<>> THEN <<token>>
    ELSE LET n == Len(token_sequence)
             last_token == token_sequence[n]
         IN IF last_token.kind = "Literal"
            THEN Append(token_sequence, token)
            ELSE Append(SubSeq(token_sequence, 1, n - 1),
                        merge_wildcard_tokens(last_token, token))

append_literal_to_token_sequence(token_sequence, literal) ==
    IF token_sequence = <<>> THEN <<Literal(MultiSlice_from(literal))>>
    ELSE LET n == Len(token_sequence)
             last_token == token_sequence[n]
         IN IF last_token.kind = "Literal"
            THEN [token_sequence EXCEPT
                     ![n] = Literal(MultiSlice_push(last_token.literal, literal))]
            ELSE Append(token_sequence, Literal(MultiSlice_from(literal)))

\* The parser's loop state: the tokens so far, the parser state and, once the
\* function has returned or panicked, its outcome (None while it runs).
Running(output, parser_state) ==
    [output |-> output, parser_state |-> parser_state, ret |-> None]
Returned(st, ret) == [st EXCEPT !.ret = ret]

\* the arm '*' | '?' of the match on the character c at index i
wildcard_arm(str, st, i, c) ==
    LET ps == st.parser_state
    IN CASE ps.kind = "ExpectNew" ->
              Running(append_wildcard_to_token_sequence(
                          st.output, wildcard_for_character(c)), ps)
         [] ps.kind = "BorrowedLiteral" ->
              IF ~CanSlice(str, ps.start, ps.end) THEN Returned(st, Panic)
              ELSE Running(
                     Append(append_literal_to_token_sequence(
                                st.output, Slice(str, ps.start, ps.end)),
                            wildcard_for_character(c)),
                     ExpectNew)
         [] ps.kind = "ExpectEscapedCharacter" ->
              Running(st.output, BorrowedLiteral(i, i + 1))

\* the arm '\\'
backslash_arm(str, st, i, c) ==
    LET ps == st.parser_state
    IN CASE ps.kind = "ExpectNew" ->
              Running(st.output, ExpectEscapedCharacter)
         [] ps.kind = "BorrowedLiteral" ->
              IF ~CanSlice(str, ps.start, ps.end) THEN Returned(st, Panic)
              ELSE Running(
                     append_literal_to_token_sequence(
                         st.output, Slice(str, ps.start, ps.end)),
                     ExpectEscapedCharacter)
         [] ps.kind = "ExpectEscapedCharacter" ->
              Running(st.output, BorrowedLiteral(i, i + 1))

\* the arm _ reporting the index of the escaped character, not of the backslash
other_arm_index_of_character(str, st, i, c) ==
    LET ps == st.parser_state
    IN CASE ps.kind = "ExpectNew" ->
              Running(st.output, BorrowedLiteral(i, i + 1))
         [] ps.kind = "BorrowedLiteral" ->
              Running(st.output, BorrowedLiteral(ps.start, i + 1))
         [] ps.kind = "ExpectEscapedCharacter" ->
              IF ~CanSlice(str, i - 1, i + 1) THEN Returned(st, Panic)
              ELSE Returned(st, Err(UnknownEscapeSequence(
                                        i, Slice(str, i - 1, i + 1))))

\* the arm _ starting a literal run after the character it has read
other_arm_start_after_character(str, st, i, c) ==
    LET ps == st.parser_state
    IN CASE ps.kind = "ExpectNew" ->
              Running(st.output, BorrowedLiteral(i + 1, i + 1))
         [] ps.kind = "BorrowedLiteral" ->
              Running(st.output, BorrowedLiteral(ps.start, i + 1))
         [] ps.kind = "ExpectEscapedCharacter" ->
              IF ~CanSlice(str, i - 1, i + 1) THEN Returned(st, Panic)
              ELSE Returned(st, Err(UnknownEscapeSequence(
                                        i - 1, Slice(str, i - 1, i + 1))))

\* the arm _ (any other character)
other_arm(str, st, i, c) ==
    LET ps == st.parser_state
    IN CASE ps.kind = "ExpectNew" ->
              Running(st.output, BorrowedLiteral(i, i + 1))
         [] ps.kind = "BorrowedLiteral" ->
              Running(st.output, BorrowedLiteral(ps.start, i + 1))
         [] ps.kind = "ExpectEscapedCharacter" ->
              IF ~CanSlice(str, i - 1, i + 1) THEN Returned(st, Panic)
              ELSE Returned(st, Err(UnknownEscapeSequence(
                                        i - 1, Slice(str, i - 1, i + 1))))

\* one iteration of `for (i, c) in str.chars().enumerate()`
parser_step(str, st, i) ==
    LET c == chars(str)[i + 1]
    IN IF c \in {"*", "?"} THEN wildcard_arm(str, st, i, c)
       ELSE IF c = "\\" THEN backslash_arm(str, st, i, c)
       ELSE other_arm(str, st, i, c)

\* the end of the loop reporting the pattern's length for a dangling backslash
parser_finish_index_is_length(str, st) ==
    LET ps == st.parser_state
    IN CASE ps.kind = "ExpectNew" -> Returned(st, Ok(st.output))
         [] ps.kind = "BorrowedLiteral" ->
              IF ~CanSlice(str, ps.start, ps.end) THEN Returned(st, Panic)
              ELSE LET out == append_literal_to_token_sequence(
                                  st.output, Slice(str, ps.start, ps.end))
                   IN [output |-> out, parser_state |-> ps, ret |-> Ok(out)]
         [] ps.kind = "ExpectEscapedCharacter" ->
              Returned(st, Err(UnterminatedEscapeSequence(Len(str))))

\* after the loop: append the current state as token
parser_finish(str, st) ==
    LET ps == st.parser_state
    IN CASE ps.kind = "ExpectNew" -> Returned(st, Ok(st.output))
         [] ps.kind = "BorrowedLiteral" ->
              IF ~CanSlice(str, ps.start, ps.end) THEN Returned(st, Panic)
              ELSE LET out == append_literal_to_token_sequence(
                                  st.output, Slice(str, ps.start, ps.end))
                   IN [output |-> out, parser_state |-> ps, ret |-> Ok(out)]
         [] ps.kind = "ExpectEscapedCharacter" ->
              Returned(st, Err(UnterminatedEscapeSequence(Len(str) - 1)))

RECURSIVE parse_from(_, _, _)
parse_from(str, st, i) ==
    IF st.ret.kind # "None" THEN st.ret
    ELSE IF i < Len(chars(str)) THEN parse_from(str, parser_step(str, st, i), i + 1)
    ELSE parser_finish(str, st).ret

parse_glob_string(str) == parse_from(str, Running(<<>>, ExpectNew), 0)

-----------------------------------------------------------------------------
(* lib.rs *)

RECURSIVE token_sequence_matches_at_start(_, _)
RECURSIVE token_sequence_matches_partially(_, _)
RECURSIVE for_each_occurence(_, _, _)

\* &string[from..]
CanSliceFrom(string, from) == CanSlice(string, from, Len(string))
SliceFrom(string, from) == Slice(string, from, Len(string))

\* "true", "false" or "panic"
token_sequence_matches_at_start(token_sequence, string) ==
    IF token_sequence = <<>> THEN "true"
    ELSE
      LET token == Head(token_sequence)
          rest == Tail(token_sequence)
      IN CASE token.kind = "ExactLengthWildcard" ->
                IF ~(Len(string) >= token.length) THEN "false"
                ELSE IF ~CanSliceFrom(string, token.length) THEN "panic"
                ELSE token_sequence_matches_at_start(
                         rest, SliceFrom(string, token.length))
           [] token.kind = "Literal" ->
                LET m == matches_string_start(token.literal, string)
                    n == get_combined_length(token.literal)
                IN IF m # "true" THEN m
                   ELSE IF ~CanSliceFrom(string, n) THEN "panic"
                   ELSE token_sequence_matches_at_start(rest, SliceFrom(string, n))
           [] token.kind = "MinLengthWildcard" ->
                IF ~(Len(string) >= token.length) THEN "false"
                ELSE IF ~CanSliceFrom(string, token.length) THEN "panic"
                ELSE token_sequence_matches_partially(
                         rest, SliceFrom(string, token.length))

\* `for m in literal.find_all_occurences_in(string)` from the iterator `it` on
for_each_occurence(literal, rest, it) ==
    LET n == Iterator_next(it)
        after == n.item.value + get_combined_length(literal)
    IN IF n.item.kind = "Panic" THEN "panic"
       ELSE IF n.item.kind = "None" THEN "false"
       ELSE IF ~CanSliceFrom(it.string, after) THEN "panic"
       ELSE LET r == token_sequence_matches_at_start(
                         rest, SliceFrom(it.string, after))
            IN IF r = "false" THEN for_each_occurence(literal, rest, n.it)
               ELSE r

\* the unanchored match asking for more characters than the wildcard's length
token_sequence_matches_partially_strict(tokens, string) ==
    IF tokens = <<>> THEN "true"
    ELSE
      LET token == Head(tokens)
          rest == Tail(tokens)
      IN IF IsWildcard(token)
         THEN IF ~(Len(string) > token.length) THEN "false"
              ELSE IF ~CanSliceFrom(string, token.length) THEN "panic"
              ELSE token_sequence_matches_partially(
                       rest, SliceFrom(string, token.length))
         ELSE for_each_occurence(
                  token.literal, rest,
                  find_all_occurences_in(token.literal, string))

\* the unanchored match anchoring what follows a leading wildcard
token_sequence_matches_partially_anchored_after_wildcard(tokens, string) ==
    IF tokens = <<>> THEN "true"
    ELSE
      LET token == Head(tokens)
          rest == Tail(tokens)
      IN IF IsWildcard(token)
         THEN IF ~(Len(string) >= token.length) THEN "false"
              ELSE IF ~CanSliceFrom(string, token.length) THEN "panic"
              ELSE token_sequence_matches_at_start(
                       rest, SliceFrom(string, token.length))
         ELSE for_each_occurence(
                  token.literal, rest,
                  find_all_occurences_in(token.literal, string))

token_sequence_matches_partially(tokens, string) ==
    IF tokens = <<>> THEN "true"
    ELSE
      LET token == Head(tokens)
          rest == Tail(tokens)
      IN IF IsWildcard(token)
         THEN IF ~(Len(string) >= token.length) THEN "false"
              ELSE IF ~CanSliceFrom(string, token.length) THEN "panic"
              ELSE token_sequence_matches_partially(
                       rest, SliceFrom(string, token.length))
         ELSE for_each_occurence(
                  token.literal, rest,
                  find_all_occurences_in(token.literal, string))

\* Result::map(|tokens| ParsedGlobString { tokens })
ParsedGlobString(r) ==
    IF r.kind = "Ok" THEN Ok([tokens |-> r.value]) ELSE r

\* impl TryFrom<&str> for ParsedGlobString
try_from(string) == ParsedGlobString(parse_glob_string(string))

\* ParsedGlobString::matches_partially
matches_partially(self, string) ==
    token_sequence_matches_partially(self.tokens, string)

\* a receiver that loses its first token in a match
self_after_matches_partially_consumed(self, string) ==
    [tokens |-> IF self.tokens = <<>> THEN <<>> ELSE Tail(self.tokens)]

\* ParsedGlobString::matches_partially borrows its receiver as &self: the
\* parsed pattern after the call
self_after_matches_partially(self, string) == self

\* the one-shot function answering false for a pattern that does not parse
pattern_matches_partially_unwrap_or_false(pattern, string) ==
    LET r == try_from(pattern)
    IN IF r.kind = "Ok"
       THEN LET m == matches_partially(r.value, string)
            IN [ret |-> IF m = "panic" THEN Panic ELSE Ok(m), calls |-> 1]
       ELSE IF r.kind = "Err" THEN [ret |-> Ok("false"), calls |-> 0]
       ELSE [ret |-> r, calls |-> 0]

\* pattern_matches_partially: what it returns (Panic when it aborts) and how
\* many times the closure of Result::map, the match, was run
pattern_matches_partially(pattern, string) ==
    LET r == try_from(pattern)
    IN IF r.kind = "Ok"
       THEN LET m == matches_partially(r.value, string)
            IN [ret |-> IF m = "panic" THEN Panic ELSE Ok(m), calls |-> 1]
       ELSE [ret |-> r, calls |-> 0]

-----------------------------------------------------------------------------
(* The program: a pattern is parsed character by character (try_from); the *)
(* parsed pattern is matched against candidate strings, any number of      *)
(* times; after each match the one-shot function is called with the same   *)
(* pattern and candidate.  For a pattern that does not parse, the one-shot *)
(* function is called with any candidate.                                  *)

VARIABLES
    pattern,        \* the pattern string given to try_from
    i,              \* the number of characters the parser's loop has consumed
    output,         \* the parser's token sequence
    parser_state,   \* the parser's state
    result,         \* what try_from returned: None while the parser runs
    string,         \* the candidate of the last match
    matched,        \* what the last matches_partially returned, "none" before
    oneshot,        \* what pattern_matches_partially did, None before its call
    threads,        \* the threads sharing the parsed pattern, each one's call
    multislice,     \* a MultiSlice used on its own
    ms_call,        \* the last call on multislice and what it returned
    token_sequence, \* a token sequence given to the anchored procedure
    anchored_call   \* the last call of the anchored procedure and its result

vars == <<pattern, i, output, parser_state, result, string, matched, oneshot,
          threads, multislice, ms_call, token_sequence, anchored_call>>

\* the state of the variables the single-threaded program does not use
others == <<threads, multislice, ms_call, token_sequence, anchored_call>>

\* no call on the MultiSlice yet
NoCall == [kind |-> "none"]

\* the threads that share one parsed pattern and their candidates
Threads == {"t1", "t2"}
ThreadStrings == {<<>>, <<"a">>, <<"H", "T">>, <<"a", "*">>}
Idle == [pc |-> "idle"]
Calling(s) == [pc |-> "calling", string |-> s]
Returned_from_call(s, r) == [pc |-> "returned", string |-> s, ret |-> r]

Init ==
    /\ pattern \in Patterns
    /\ i = 0
    /\ output = <<>>
    /\ parser_state = ExpectNew
    /\ result = None
    /\ string = <<>>
    /\ matched = "none"
    /\ oneshot = None
    /\ threads = [t \in Threads |-> Idle]
    /\ multislice = MultiSlice_new
    /\ ms_call = NoCall
    /\ token_sequence = <<>>
    /\ anchored_call = NoCall

\* one iteration of the parser's loop, through the arm `arm` of its match
ParseChar(st) ==
    /\ i' = i + 1
    /\ output' = st.output
    /\ parser_state' = st.parser_state
    /\ result' = ParsedGlobString(st.ret)
    /\ UNCHANGED <<pattern, string, matched, oneshot, others>>

\* the parser's loop state and the character it is about to consume
Current == Running(output, parser_state)
current_char == chars(pattern)[i + 1]

ParseWildcard ==
    /\ result = None
    /\ i < Len(chars(pattern))
    /\ current_char \in {"*", "?"}
    /\ ParseChar(wildcard_arm(pattern, Current, i, current_char))

ParseBackslash ==
    /\ result = None
    /\ i < Len(chars(pattern))
    /\ current_char = "\\"
    /\ ParseChar(backslash_arm(pattern, Current, i, current_char))

ParseOther ==
    /\ result = None
    /\ i < Len(chars(pattern))
    /\ current_char \notin {"*", "?", "\\"}
    /\ ParseChar(other_arm(pattern, Current, i, current_char))

\* the end of the parser's loop
ParseEnd ==
    /\ result = None
    /\ i = Len(chars(pattern))
    /\ LET st == parser_finish(pattern, Current)
       IN /\ output' = st.output
          /\ parser_state' = st.parser_state
          /\ result' = ParsedGlobString(st.ret)
    /\ UNCHANGED <<pattern, i, string, matched, oneshot, others>>

\* pgs.matches_partially(s) on the parsed pattern: the first match, or a
\* further one after the one-shot call that follows every match here; a match
\* that panicked has ended the program
MatchesPartially ==
    /\ result.kind = "Ok"
    /\ matched # "panic"
    /\ matched = "none" \/ oneshot # None
    /\ \E s \in Strings :
        /\ string' = s
        /\ matched' = matches_partially(result.value, s)
        /\ result' = Ok(self_after_matches_partially(result.value, s))
    /\ oneshot' = None
    /\ UNCHANGED <<pattern, i, output, parser_state, others>>

\* pattern_matches_partially(pattern, s)
PatternMatchesPartially ==
    /\ result # None
    /\ oneshot = None
    /\ \E s \in Strings :
        /\ result.kind = "Ok" => (matched # "none" /\ s = string)
        /\ string' = s
        /\ oneshot' = pattern_matches_partially(pattern, s)
    /\ UNCHANGED <<pattern, i, output, parser_state, result, matched, others>>

Next ==
    \/ ParseWildcard
    \/ ParseBackslash
    \/ ParseOther
    \/ ParseEnd
    \/ MatchesPartially
    \/ PatternMatchesPartially

Spec == Init /\ [][Next]_vars

-----------------------------------------------------------------------------
(* Threads: one parsed pattern shared by several threads, each calling      *)
(* matches_partially on it; a call starts (Call) and later runs its body    *)
(* and returns (Return), so the calls of different threads overlap.         *)

MaxThreadPatLen == 2
ThreadPatterns == StrsUpTo(PatternBytes, MaxThreadPatLen)

InitThreads ==
    /\ pattern \in ThreadPatterns
    /\ i = 0
    /\ output = <<>>
    /\ parser_state = ExpectNew
    /\ result = None
    /\ string = <<>>
    /\ matched = "none"
    /\ oneshot = None
    /\ threads = [t \in Threads |-> Idle]
    /\ multislice = MultiSlice_new
    /\ ms_call = NoCall
    /\ token_sequence = <<>>
    /\ anchored_call = NoCall

\* thread t calls pgs.matches_partially(s) on the shared parsed pattern
Call(t) ==
    /\ result.kind = "Ok"
    /\ threads[t].pc # "calling"
    /\ \E s \in ThreadStrings : threads' = [threads EXCEPT ![t] = Calling(s)]
    /\ UNCHANGED <<pattern, i, output, parser_state, result, string, matched,
                   oneshot, multislice, ms_call, token_sequence, anchored_call>>

\* the call of thread t runs on the shared parsed pattern and returns
Return(t) ==
    /\ threads[t].pc = "calling"
    /\ LET s == threads[t].string
       IN /\ threads' = [threads EXCEPT ![t] =
                 Returned_from_call(s, matches_partially(result.value, s))]
          /\ result' = Ok(self_after_matches_partially(result.value, s))
    /\ UNCHANGED <<pattern, i, output, parser_state, string, matched, oneshot,
                   multislice, ms_call, token_sequence, anchored_call>>

NextThreads ==
    \/ ParseWildcard
    \/ ParseBackslash
    \/ ParseOther
    \/ ParseEnd
    \/ \E t \in Threads : Call(t)
    \/ \E t \in Threads : Return(t)

SpecThreads == InitThreads /\ [][NextThreads]_vars

-----------------------------------------------------------------------------
(* MultiSlice on its own: a buffer is constructed (new, from a slice, from  *)
(* a slice list), segments are pushed, and it is compared with another      *)
(* buffer, matched against the start of a string, or searched for in a      *)
(* string through the iterator of find_all_occurences_in, one next() at a   *)
(* time.                                                                    *)

MaxSlices == 2
MaxTargetLen == 3
Segments == {<<>>, <<"a">>, <<"H", "T">>, <<"a", "a">>}
Targets == StrsUpTo({"a", "H", "T"}, MaxTargetLen)

RECURSIVE SlicesUpTo(_)
SlicesUpTo(n) ==
    IF n = 0 THEN {<<>>}
    ELSE LET shorter == SlicesUpTo(n - 1)
         IN shorter \cup {Append(l, s) : l \in shorter, s \in Segments}

\* the calls on a MultiSlice and what they returned
MatchesStringStartCall(s, ret) ==
    [kind |-> "matches_string_start", string |-> s, ret |-> ret]
EqCall(other, ret) == [kind |-> "eq", other |-> other, ret |-> ret]
EqStrCall(other, ret) == [kind |-> "eq_str", other |-> other, ret |-> ret]
\* the iterator, the offsets it has yielded, and the kind of its last item
IteratorCall(it, yielded, last) ==
    [kind |-> "iterator", it |-> it, yielded |-> yielded, last |-> last]

InitMultiSlice ==
    /\ multislice \in {MultiSlice_new}
                       \cup {MultiSlice_from(s) : s \in Segments}
                       \cup {MultiSlice_from_slices(l) : l \in SlicesUpTo(MaxSlices)}
    /\ ms_call = NoCall
    /\ pattern = <<>>
    /\ i = 0
    /\ output = <<>>
    /\ parser_state = ExpectNew
    /\ result = None
    /\ string = <<>>
    /\ matched = "none"
    /\ oneshot = None
    /\ threads = [t \in Threads |-> Idle]
    /\ token_sequence = <<>>
    /\ anchored_call = NoCall

parser_vars ==
    <<pattern, i, output, parser_state, result, string, matched, oneshot,
      threads, token_sequence, anchored_call>>

\* multislice.push(slice)
Push ==
    /\ Len(multislice.slices) < MaxSlices
    /\ \E slice \in Segments : multislice' = MultiSlice_push(multislice, slice)
    /\ ms_call' = NoCall
    /\ UNCHANGED parser_vars

\* multislice.matches_string_start(s)
MatchesStringStart ==
    /\ \E s \in Targets :
          ms_call' = MatchesStringStartCall(s, matches_string_start(multislice, s))
    /\ UNCHANGED <<multislice, parser_vars>>

\* multislice == other
Eq ==
    /\ \E l \in SlicesUpTo(MaxSlices) :
          LET other == MultiSlice_from_slices(l)
          IN ms_call' = EqCall(other, MultiSlice_eq(multislice, other))
    /\ UNCHANGED <<multislice, parser_vars>>

\* multislice == *s, for a str s
EqStr ==
    /\ \E s \in Targets :
          ms_call' = EqStrCall(s, MultiSlice_eq_str(multislice, s))
    /\ UNCHANGED <<multislice, parser_vars>>

\* multislice.find_all_occurences_in(s)
FindAllOccurencesIn ==
    /\ \E s \in Targets :
          ms_call' = IteratorCall(find_all_occurences_in(multislice, s),
                                  <<>>, "new")
    /\ UNCHANGED <<multislice, parser_vars>>

\* next() on the iterator: a panic ends the program
IteratorNext ==
    /\ ms_call.kind = "iterator"
    /\ ms_call.last # "Panic"
    /\ LET n == Iterator_next(ms_call.it)
       IN ms_call' = IteratorCall(n.it,
                         IF n.item.kind = "Some"
                         THEN Append(ms_call.yielded, n.item.value)
                         ELSE ms_call.yielded,
                         n.item.kind)
    /\ UNCHANGED <<multislice, parser_vars>>

NextMultiSlice ==
    \/ Push
    \/ MatchesStringStart
    \/ Eq
    \/ EqStr
    \/ FindAllOccurencesIn
    \/ IteratorNext

SpecMultiSlice == InitMultiSlice /\ [][NextMultiSlice]_vars

-----------------------------------------------------------------------------
(* The anchored procedure on its own: token_sequence_matches_at_start is    *)
(* given a token sequence, of any shape, and a string.                      *)

MaxTokens == 2
AnchoredTokens ==
    {ExactLengthWildcard(1), ExactLengthWildcard(2),
     MinLengthWildcard(0), MinLengthWildcard(1),
     Literal(MultiSlice_from(<<"a">>)),
     Literal(MultiSlice_from(<<"H", "T">>)),
     Literal(MultiSlice_from_slices(<< <<"a">>, <<"*">> >>))}

RECURSIVE TokenSequencesUpTo(_)
TokenSequencesUpTo(n) ==
    IF n = 0 THEN {<<>>}
    ELSE LET shorter == TokenSequencesUpTo(n - 1)
         IN shorter \cup {Append(ts, t) : ts \in shorter, t \in AnchoredTokens}

AnchoredCall(s, ret) == [kind |-> "call", string |-> s, ret |-> ret]

InitAnchored ==
    /\ token_sequence \in TokenSequencesUpTo(MaxTokens)
    /\ anchored_call = NoCall
    /\ pattern = <<>>
    /\ i = 0
    /\ output = <<>>
    /\ parser_state = ExpectNew
    /\ result = None
    /\ string = <<>>
    /\ matched = "none"
    /\ oneshot = None
    /\ threads = [t \in Threads |-> Idle]
    /\ multislice = MultiSlice_new
    /\ ms_call = NoCall

\* token_sequence_matches_at_start(token_sequence, s)
TokenSequenceMatchesAtStart ==
    /\ \E s \in Strings :
          anchored_call' =
              AnchoredCall(s, token_sequence_matches_at_start(token_sequence, s))
    /\ UNCHANGED <<pattern, i, output, parser_state, result, string, matched,
                   oneshot, threads, multislice, ms_call, token_sequence>>

NextAnchored == TokenSequenceMatchesAtStart

SpecAnchored == InitAnchored /\ [][NextAnchored]_vars

-----------------------------------------------------------------------------
(* What the pattern syntax means, read off the pattern itself: an unescaped *)
(* `*`, an unescaped `?`, or a character standing for itself.  The claims   *)
(* below compare the program with these definitions.                        *)

Star == [kind |-> "star"]
QuestionMark == [kind |-> "question_mark"]
Itself(c) == [kind |-> "itself", c |-> c]

IsEscapable(c) == c \in {"*", "?", "\\"}

\* the first malformed escape of the characters cs, off characters before
RECURSIVE FirstMalformed(_, _)
FirstMalformed(cs, off) ==
    IF cs = <<>> THEN [kind |-> "none"]
    ELSE IF Head(cs) # "\\" THEN FirstMalformed(Tail(cs), off + 1)
    ELSE IF Len(cs) = 1 THEN [kind |-> "unterminated", index |-> off]
    ELSE IF ~IsEscapable(cs[2]) THEN [kind |-> "unknown", index |-> off]
    ELSE FirstMalformed(Tail(Tail(cs)), off + 2)

Malformed(cs) == FirstMalformed(cs, 0).kind # "none"

\* the elements of a pattern without malformed escape
RECURSIVE Elements(_)
Elements(cs) ==
    IF cs = <<>> THEN <<>>
    ELSE IF Head(cs) = "\\" THEN <<Itself(cs[2])>> \o Elements(Tail(Tail(cs)))
    ELSE IF Head(cs) = "*" THEN <<Star>> \o Elements(Tail(cs))
    ELSE IF Head(cs) = "?" THEN <<QuestionMark>> \o Elements(Tail(cs))
    ELSE <<Itself(Head(cs))>> \o Elements(Tail(cs))

\* the elements match the characters cs in full
RECURSIVE FullMatch(_, _)
FullMatch(elems, cs) ==
    IF elems = <<>> THEN cs = <<>>
    ELSE LET e == Head(elems)
         IN CASE e.kind = "star" ->
                   \/ FullMatch(Tail(elems), cs)
                   \/ (cs # <<>> /\ FullMatch(elems, Tail(cs)))
              [] e.kind = "question_mark" ->
                   cs # <<>> /\ FullMatch(Tail(elems), Tail(cs))
              [] e.kind = "itself" ->
                   cs # <<>> /\ Head(cs) = e.c /\ FullMatch(Tail(elems), Tail(cs))

\* some contiguous substring of the characters cs is matched in full
SomeSubstringMatches(elems, cs) ==
    \E a \in 0..Len(cs) : \E b \in a..Len(cs) :
        FullMatch(elems, SubSeq(cs, a + 1, b))

\* the maximal runs of a pattern's elements: a run of wildcards with its number
\* of question marks and whether it holds a star, or a run of characters
\* standing for themselves with its content
WildRun(q, star) == [kind |-> "wild", q |-> q, star |-> star]
LitRun(content) == [kind |-> "lit", content |-> content]

RECURSIVE RunsFrom(_, _)
RunsFrom(elems, runs) ==
    IF elems = <<>> THEN runs
    ELSE
      LET e == Head(elems)
          n == Len(runs)
          wild == e.kind # "itself"
          joins == n > 0 /\ (runs[n].kind = "wild") = wild
          q == IF e.kind = "question_mark" THEN 1 ELSE 0
          new == IF wild THEN WildRun(q, e.kind = "star") ELSE LitRun(<<e.c>>)
          joined == IF wild
                    THEN WildRun(runs[n].q + q, runs[n].star \/ e.kind = "star")
                    ELSE LitRun(Append(runs[n].content, e.c))
      IN RunsFrom(Tail(elems),
                  IF joins THEN [runs EXCEPT ![n] = joined] ELSE Append(runs, new))

Runs(cs) == RunsFrom(Elements(cs), <<>>)

IsWildRun(run) == run.kind = "wild"
IsLitRun(run) == run.kind = "lit"
IsLiteral(token) == token.kind = "Literal"

\* the token a run of wildcards stands for
WildcardOfRun(run) ==
    IF run.star THEN MinLengthWildcard(run.q) ELSE ExactLengthWildcard(run.q)

\* the text of a MultiSlice: its segments one after the other
RECURSIVE Concat(_)
Concat(slices) ==
    IF slices = <<>> THEN <<>> ELSE Head(slices) \o Concat(Tail(slices))

Bool(b) == IF b THEN "true" ELSE "false"

\* a str of one-byte characters only
SingleUnit(s) == \A k \in 1..Len(s) : s[k] \notin {"H", "T"}

Parsed == result.kind = "Ok"
Tokens == result.value.tokens

-----------------------------------------------------------------------------
(* Claims *)

\* C1: for every pattern that parses and every candidate, matches_partially
\* returns true if and only if some contiguous substring of the candidate is
\* matched in full by the pattern, `*` standing for zero or more characters,
\* `?` for exactly one character and every other or escaped character for
\* itself.
C1_MatchesIffSubstringMatches ==
    matched \in {"true", "false"} =>
        /\ ~Malformed(chars(pattern))
        /\ matched = Bool(SomeSubstringMatches(Elements(chars(pattern)),
                                               chars(string)))

\* C1 for patterns and candidates of one-byte characters only
C1_SingleUnit ==
    (matched # "none" /\ SingleUnit(pattern) /\ SingleUnit(string)) =>
        /\ ~Malformed(pattern)
        /\ matched = Bool(SomeSubstringMatches(Elements(pattern), string))

\* C2: matches_partially on a parsed pattern completes and returns true or
\* false for every candidate, the empty one and those with characters of more
\* than one byte included; it never panics.
C2_MatchNeverPanics ==
    matched \in {"none", "true", "false"}

\* C2 for candidates of one-byte characters only
C2_SingleUnit ==
    SingleUnit(string) => matched \in {"none", "true", "false"}

\* C3: parse returns an error if and only if the pattern holds a malformed
\* escape (an unescaped backslash followed by a character other than `*`, `?`,
\* `\`, or by the end of the pattern); every other pattern, the empty one
\* included, parses to a token sequence.
C3_ErrorIffMalformed ==
    result # None =>
        /\ result.kind = "Err" <=> Malformed(chars(pattern))
        /\ result.kind = "Ok" <=> ~Malformed(chars(pattern))

\* C3 for patterns of one-byte characters only
C3_SingleUnit ==
    (result # None /\ SingleUnit(pattern)) =>
        /\ result.kind = "Err" <=> Malformed(pattern)
        /\ result.kind = "Ok" <=> ~Malformed(pattern)

\* C4: every maximal run of unescaped wildcard characters of a parsed pattern
\* is exactly one token, whatever the order of the characters in the run:
\* ExactLengthWildcard(k) for k `?` and no `*`, MinLengthWildcard(k) for k `?`
\* and at least one `*`.
C4_WildcardRunIsOneToken ==
    Parsed =>
        LET wildcards == SelectSeq(Tokens, IsWildcard)
            runs == SelectSeq(Runs(chars(pattern)), IsWildRun)
        IN /\ Len(wildcards) = Len(runs)
           /\ \A k \in 1..Len(runs) : wildcards[k] = WildcardOfRun(runs[k])

\* a parsed pattern with a run of `?` and `*` in which a `?` follows a `*`
C4_Witness ==
    /\ Parsed
    /\ \E k \in 1..Len(Tokens) : Tokens[k] = MinLengthWildcard(2)
    /\ \E k \in 1..(Len(pattern) - 1) : pattern[k] = "*" /\ pattern[k + 1] = "?"

\* C5: for every pattern that parses, each maximal run of plain characters and
\* valid escape sequences is exactly one Literal token whose concatenated
\* content is the run with every escaping backslash removed, in however many
\* segments the literal is stored.
C5_LiteralRunIsOneToken ==
    Parsed =>
        LET literals == SelectSeq(Tokens, IsLiteral)
            runs == SelectSeq(Runs(pattern), IsLitRun)
        IN /\ Len(literals) = Len(runs)
           /\ \A k \in 1..Len(runs) :
                Concat(literals[k].literal.slices) = runs[k].content

\* C5 for patterns of one-byte characters only
C5_SingleUnit ==
    SingleUnit(pattern) => C5_LiteralRunIsOneToken

\* C6: for every pattern that parses, matches_partially(p, "") is true if and
\* only if every token of p is a wildcard of minimum length 0.
C6_EmptyCandidate ==
    (matched # "none" /\ string = <<>>) =>
        matched = Bool(\A k \in 1..Len(Tokens) :
                           IsWildcard(Tokens[k]) /\ Tokens[k].length = 0)

\* a pattern of `*` only matched the empty candidate
C6_Witness ==
    /\ matched = "true"
    /\ string = <<>>
    /\ Tokens = <<MinLengthWildcard(0)>>

\* C7: pattern_matches_partially(p, s) returns Ok(b) exactly when try_from(p)
\* succeeds and its matches_partially(s) returns b, and Err(e) exactly when
\* try_from(p) returns Err(e), the same error, without a match being attempted.
C7_OneShotIsParseThenMatch ==
    oneshot # None =>
        /\ (result.kind = "Ok" /\ matched # "panic") =>
              (oneshot.ret = Ok(matched) /\ oneshot.calls = 1)
        /\ (result.kind = "Ok" /\ matched = "panic") => oneshot.ret = Panic
        /\ result.kind = "Err" => (oneshot.ret = result /\ oneshot.calls = 0)
        /\ result.kind = "Panic" => oneshot.ret = Panic

\* the one-shot function returned an unknown escape sequence at an index > 0
C7_Witness ==
    /\ oneshot # None
    /\ oneshot.ret.kind = "Err"
    /\ oneshot.ret.err.kind = "UnknownEscapeSequence"
    /\ oneshot.ret.err.index > 0

\* C8: for a pattern of one-byte characters whose first malformed escape is a
\* backslash followed by a character other than `*`, `?`, `\`, parse fails with
\* UnknownEscapeSequence(i, t): i the index of that backslash, t the backslash
\* and the character after it.
C8_UnknownEscapeSequence ==
    LET first == FirstMalformed(pattern, 0)
    IN (result # None /\ SingleUnit(pattern) /\ first.kind = "unknown") =>
            result = Err(UnknownEscapeSequence(
                             first.index,
                             SubSeq(pattern, first.index + 1, first.index + 2)))

\* parse failed on an unknown escape that is not at the start of the pattern
C8_Witness ==
    /\ SingleUnit(pattern)
    /\ result.kind = "Err"
    /\ result.err.kind = "UnknownEscapeSequence"
    /\ result.err.index = 2

\* C9: for a pattern of one-byte characters that ends in an unescaped backslash
\* and has no earlier malformed escape, parse fails with
\* UnterminatedEscapeSequence(i), i the index of the pattern's last character.
C9_UnterminatedEscapeSequence ==
    LET first == FirstMalformed(pattern, 0)
    IN (result # None /\ SingleUnit(pattern) /\ first.kind = "unterminated") =>
            /\ first.index = Len(pattern) - 1
            /\ result = Err(UnterminatedEscapeSequence(first.index))

\* parse failed on a dangling backslash that follows an escaped backslash
C9_Witness ==
    /\ SingleUnit(pattern)
    /\ result = Err(UnterminatedEscapeSequence(3))
    /\ pattern[3] = "\\"

\* C10: also for patterns with characters of more than one byte, every index
\* the tokenizer slices a literal run with or reports in an error is a slice
\* boundary of the pattern: parse never aborts, and every literal token and
\* error payload is the intended text.
C10_UniformIndexing ==
    /\ result.kind # "Panic"
    /\ parser_state.kind = "BorrowedLiteral" =>
           CanSlice(pattern, parser_state.start, parser_state.end)
    /\ result.kind = "Err" =>
           result.err.index = FirstMalformed(pattern, 0).index

\* C10 for patterns of one-byte characters only
C10_SingleUnit ==
    SingleUnit(pattern) => C10_UniformIndexing


\* C11: parse errors are terminal: for a pattern with malformed escapes parse
\* stops at the leftmost one and returns that error alone, without any token
\* recognised before it and without consuming anything after it.
C11_ErrorsAreTerminal ==
    LET first == FirstMalformed(chars(pattern), 0)
    IN (result # None /\ first.kind # "none") =>
            /\ result.kind = "Err"
            /\ DOMAIN result = {"kind", "err"}
            /\ result.err.kind = (IF first.kind = "unknown"
                                  THEN "UnknownEscapeSequence"
                                  ELSE "UnterminatedEscapeSequence")
            /\ i = (IF first.kind = "unknown"
                    THEN first.index + 2 ELSE first.index + 1)

\* C11 for patterns of one-byte characters only, with the index of the error
C11_SingleUnit ==
    (result # None /\ SingleUnit(pattern) /\ Malformed(pattern)) =>
        /\ C11_ErrorsAreTerminal
        /\ result.err.index = FirstMalformed(pattern, 0).index

\* no two adjacent tokens are both wildcards or both literals
Alternating(ts) ==
    \A k \in 1..(Len(ts) - 1) : IsWildcard(ts[k]) # IsWildcard(ts[k + 1])

\* C12: after every step of the tokenizer and in every token sequence parse
\* returns, no two adjacent tokens are both wildcards and no two adjacent
\* tokens are both Literal.
C12_NoAdjacentTokensOfOneCategory ==
    /\ Alternating(output)
    /\ Parsed => Alternating(Tokens)

\* a parsed pattern of a literal followed by two merged question marks
C12_Witness ==
    /\ Parsed
    /\ Len(Tokens) = 2
    /\ IsLiteral(Tokens[1])
    /\ Tokens[2] = ExactLengthWildcard(2)

OnlyWildcards(p) == \A k \in 1..Len(p) : p[k] \in {"*", "?"}
QuestionMarks(p) == Cardinality({k \in 1..Len(p) : p[k] = "?"})

\* C13: a pattern of unescaped wildcard characters only, k of them `?`,
\* matches a candidate partially if and only if the candidate has at least k
\* characters.
C13_WildcardsOnly ==
    (matched \in {"true", "false"} /\ OnlyWildcards(pattern)) =>
        matched = Bool(Len(chars(string)) >= QuestionMarks(pattern))

\* C13 for candidates of one-byte characters only
C13_SingleUnit ==
    (matched # "none" /\ OnlyWildcards(pattern) /\ SingleUnit(string)) =>
        matched = Bool(Len(string) >= QuestionMarks(pattern))


\* the tokenizer, expecting a new token, reads a character other than `*`,
\* `?` and `\` at index i
ReadsOtherWhileExpectingNew ==
    /\ result = None
    /\ parser_state = ExpectNew
    /\ i < Len(chars(pattern))
    /\ current_char \notin {"*", "?", "\\"}
    /\ i' = i + 1

\* C20 as stated: in the expecting-new state a character other than `*`, `?`
\* and `\` at index i moves the tokenizer to the accumulating-literal state
\* with start and end both i+1.
C20_StartAndEndAfterCharacter ==
    [][ReadsOtherWhileExpectingNew =>
           parser_state' = BorrowedLiteral(i + 1, i + 1)]_vars

\* C20: in the expecting-new state a character other than `*`, `?` and `\` at
\* index i moves the tokenizer to the accumulating-literal state with start i
\* and end i+1, the run of exactly the character read; no token is emitted.
C20_StartAtCharacterEndAfter ==
    [][ReadsOtherWhileExpectingNew =>
           /\ parser_state' = BorrowedLiteral(i, i + 1)
           /\ output' = output
           /\ result' = None]_vars

\* the tokenizer has just read `a` at index 1 after a wildcard at index 0
C20_Witness ==
    /\ Len(pattern) >= 2
    /\ pattern[1] \in {"*", "?"}
    /\ pattern[2] = "a"
    /\ i = 2
    /\ result = None
    /\ parser_state = BorrowedLiteral(1, 2)


IsPrefixAt(c, t, o) ==
    o + Len(c) <= Len(t) /\ SubSeq(t, o + 1, o + Len(c)) = c

\* the offsets of t at which the concatenation of the buffer's segments stands
Occurences(ms, t) ==
    {o \in 0..Len(t) : IsPrefixAt(Concat(ms.slices), t, o)}

StrictlyAscending(offsets) ==
    \A k \in 1..(Len(offsets) - 1) : offsets[k] < offsets[k + 1]

Range(f) == {f[x] : x \in DOMAIN f}

\* C14: the iterator of find_all_occurences_in yields, each once and in
\* strictly ascending order, exactly the offsets 0..=len(target) at which the
\* buffer matches the start of the target's suffix; all of them for a buffer
\* of zero combined length.
C14_AllOccurencesInOrder ==
    ms_call.kind = "iterator" =>
        /\ ms_call.last # "Panic"
        /\ StrictlyAscending(ms_call.yielded)
        /\ Range(ms_call.yielded) \subseteq Occurences(multislice, ms_call.it.string)
        /\ ms_call.last = "None" =>
               Range(ms_call.yielded) = Occurences(multislice, ms_call.it.string)
        /\ \A o \in Occurences(multislice, ms_call.it.string) :
               o < ms_call.it.next_search_position => o \in Range(ms_call.yielded)

\* C14 for a target of one-byte characters only
C14_SingleUnit ==
    (ms_call.kind = "iterator" /\ SingleUnit(ms_call.it.string)) =>
        C14_AllOccurencesInOrder

\* C15: two MultiSlices compare equal if and only if the concatenations of
\* their segments are the same text.
C15_EqualIffSameText ==
    ms_call.kind = "eq" =>
        ms_call.ret = Bool(Concat(multislice.slices) = Concat(ms_call.other.slices))

\* C15 for buffers of one-byte characters only
C15_SingleUnit ==
    (/\ ms_call.kind = "eq"
     /\ SingleUnit(Concat(multislice.slices))
     /\ SingleUnit(Concat(ms_call.other.slices))) => C15_EqualIffSameText

\* C16: matches_string_start returns true if and only if the concatenation
\* of the buffer's segments is a prefix of the target; false, not a failure,
\* for a target shorter than the content; true for a buffer of zero length.
C16_TrueIffPrefix ==
    ms_call.kind = "matches_string_start" =>
        ms_call.ret = Bool(IsPrefixAt(Concat(multislice.slices), ms_call.string, 0))

\* C16 for targets of one-byte characters only
C16_SingleUnit ==
    (ms_call.kind = "matches_string_start" /\ SingleUnit(ms_call.string)) =>
        C16_TrueIffPrefix

\* C17: after new, from a slice or from a slice list and any pushes, the
\* cached combined length is the sum of the lengths of the segments, and a
\* push of a segment increases it by that segment's length.
C17_CombinedLengthIsSum ==
    /\ [](get_combined_length(multislice) = Len(Concat(multislice.slices)))
    /\ [][Len(multislice'.slices) = Len(multislice.slices) + 1 =>
             get_combined_length(multislice') =
                 get_combined_length(multislice)
                     + Len(multislice'.slices[Len(multislice'.slices)])]_vars

\* a buffer of an empty segment and a two-byte segment
C17_Witness ==
    /\ multislice.slices = << <<>>, <<"H", "T">> >>
    /\ get_combined_length(multislice) = 2


Drop(cs, n) == SubSeq(cs, n + 1, Len(cs))

\* whether the tokens match in full some prefix of the characters cs: an
\* exact-length wildcard takes exactly its length in characters, a
\* minimum-length wildcard its length or more, a literal its content
RECURSIVE AnchoredMatch(_, _)
AnchoredMatch(ts, cs) ==
    IF ts = <<>> THEN TRUE
    ELSE LET t == Head(ts)
             rest == Tail(ts)
         IN CASE t.kind = "ExactLengthWildcard" ->
                   Len(cs) >= t.length /\ AnchoredMatch(rest, Drop(cs, t.length))
              [] t.kind = "MinLengthWildcard" ->
                   \E k \in t.length..Len(cs) : AnchoredMatch(rest, Drop(cs, k))
              [] t.kind = "Literal" ->
                   LET content == chars(Concat(t.literal.slices))
                   IN /\ Len(content) <= Len(cs)
                      /\ SubSeq(cs, 1, Len(content)) = content
                      /\ AnchoredMatch(rest, Drop(cs, Len(content)))

\* C19: the anchored procedure returns true if and only if the tokens match
\* in full some prefix of the string starting at position 0, an exact-length
\* wildcard consuming exactly n characters, a minimum-length wildcard n or
\* more and a literal its content.
C19_AnchoredIffPrefixMatches ==
    anchored_call.kind = "call" =>
        anchored_call.ret =
            Bool(AnchoredMatch(token_sequence, chars(anchored_call.string)))

\* C19 for strings of one-byte characters only
C19_SingleUnit ==
    (anchored_call.kind = "call" /\ SingleUnit(anchored_call.string)) =>
        C19_AnchoredIffPrefixMatches


\* an advancement of the iterator that is already there
Advancement ==
    /\ ms_call.kind = "iterator"
    /\ ms_call'.kind = "iterator"
    /\ ms_call'.last # "new"

\* C21: over a target of length L the search cursor of one occurrence
\* iterator starts at 0 and never decreases, the offsets yielded are strictly
\* increasing, at most L and at most L+1 in number, one per advancement at
\* most, and after an advancement that reported exhaustion every later one
\* reports exhaustion.
C21_CursorMonotoneExhaustionSticky ==
    /\ [](ms_call.kind = "iterator" =>
            /\ ms_call.last = "new" =>
                  (ms_call.it.next_search_position = 0 /\ ms_call.yielded = <<>>)
            /\ StrictlyAscending(ms_call.yielded)
            /\ \A o \in Range(ms_call.yielded) : o <= Len(ms_call.it.string)
            /\ Len(ms_call.yielded) <= Len(ms_call.it.string) + 1)
    /\ [][Advancement =>
            /\ ms_call'.it.next_search_position >= ms_call.it.next_search_position
            /\ Len(ms_call'.yielded) <= Len(ms_call.yielded) + 1
            /\ ms_call.last = "None" =>
                  (ms_call'.last = "None" /\ ms_call'.yielded = ms_call.yielded)]_vars

\* an iterator of a zero-length buffer over a two-byte target, exhausted
\* after yielding the three offsets 0, 1 and 2
C21_Witness ==
    /\ ms_call.kind = "iterator"
    /\ ms_call.last = "None"
    /\ Len(ms_call.it.string) = 2
    /\ ms_call.yielded = <<0, 1, 2>>
    /\ ms_call.it.next_search_position = 3


\* C24: a MultiSlice compared with a str is equal if and only if the
\* concatenation of its segments is that string, for any number of segments,
\* and the comparison never aborts.
C24_EqualsStrIffSameText ==
    ms_call.kind = "eq_str" =>
        ms_call.ret = Bool(Concat(multislice.slices) = ms_call.other)

\* C24 for buffers of exactly one segment
C24_OneSegment ==
    (ms_call.kind = "eq_str" /\ Len(multislice.slices) = 1) =>
        C24_EqualsStrIffSameText


\* what a match of the candidate s returns for the pattern string p, parsed
\* anew: "error" for a pattern that does not parse
MatchOf(p, s) ==
    LET r == try_from(p)
    IN IF r.kind = "Ok" THEN matches_partially(r.value, s)
       ELSE IF r.kind = "Panic" THEN "panic" ELSE "error"

\* C22: an unescaped `*` added in front of a pattern that parses, behind it,
\* or both, does not change the result of a partial match on any candidate.
C22_StarInFrontOrBehind ==
    (Parsed /\ matched # "none") =>
        /\ MatchOf(<<"*">> \o pattern, string) = matched
        /\ MatchOf(pattern \o <<"*">>, string) = matched
        /\ MatchOf(<<"*">> \o pattern \o <<"*">>, string) = matched

\* a pattern that starts and ends with a wildcard, matched with both results
C22_Witness ==
    /\ Parsed
    /\ Len(pattern) >= 3
    /\ pattern[1] = "?"
    /\ pattern[2] = "a"
    /\ pattern[Len(pattern)] = "*"
    /\ matched = "false"
    /\ string # <<>>


\* the texts put in front of and behind a candidate
Extensions == {<<>>, <<"a">>, <<"*">>, <<"H", "T">>}

\* C23: partial matching is monotone under extension of the candidate: when
\* a parsed pattern matches s it matches x + s + y for all strings x and y.
C23_MonotoneUnderExtension ==
    (Parsed /\ matched = "true") =>
        \A x \in Extensions, y \in Extensions :
            matches_partially(result.value, x \o string \o y) = "true"

\* C23 for candidates and extensions of one-byte characters only
C23_SingleUnit ==
    (Parsed /\ matched = "true" /\ SingleUnit(string)) =>
        \A x \in Extensions, y \in Extensions :
            SingleUnit(x \o y) =>
                matches_partially(result.value, x \o string \o y) = "true"

====
